---- MODULE Spec2Model ----
(***************************************************************************)
(* Lifecycle of wolf-engine's VulkanRenderer                               *)
(* (src/src/core/renderer/backend/vulkan/vulkan.rs) and of the App shell   *)
(* that drives it (src/src/app.rs).                                        *)
(*                                                                         *)
(* The renderer's fields are the record "self".  The Vulkan driver is the  *)
(* set "live" of objects that have been created and not yet destroyed;     *)
(* every object remembers the handles it was created from ("deps").  The   *)
(* driver records in "faults" every destroy call that names a handle that  *)
(* is not live, or a handle that a live object still depends on.           *)
(* Every operation is one action; the driver calls it made, in order, are  *)
(* kept in last.calls until the next operation.                            *)
(*                                                                         *)
(* SpecDiagnostics adds the messages the driver hands to the debug         *)
(* messenger; SpecBootstrap is the App of src/main.rs and                  *)
(* examples/triangle.rs, which owns instance and messenger itself.         *)
(***************************************************************************)
EXTENDS Integers, Sequences, FiniteSets, TLC

\* ------------------------------------------------------------------ bounds
MaxInits == 2      \* initialize calls in one behaviour
MaxImages == 2     \* images the driver may return for a swapchain
MaxDevices == 3    \* physical devices in an enumeration (SpecSelect)
MaxFormats == 2    \* surface formats the driver reports (SpecNegotiate)
MaxModes == 2      \* present modes the driver reports (SpecNegotiate)
MaxLayers == 2     \* instance layers the driver advertises (SpecNegotiate)
MaxExtensions == 2 \* extensions the window system requires (SpecNegotiate)
MaxCount == 3      \* small image counts a surface reports (SpecNegotiate)

\* --------------------------------------------------------------- constants
None == 0                \* Option::None of a handle field
\* std::u32::MAX.  TLC's integers are 32-bit signed and cannot hold 2^32 - 1,
\* so the unsigned range is modelled 16 bits wide: U32Max is the top of it.
U32Max == 65535
DefaultWidth == 800
DefaultHeight == 600
MaxExtent == 8192        \* an extent beyond the surface's maxImageExtent

VARIABLES
    self,              \* the VulkanRenderer's fields
    live,              \* driver: objects created and not destroyed
    faults,            \* driver: invalid destroy calls seen so far
    next,              \* driver: next fresh handle
    last,              \* the most recent operation: name, inputs, calls, outcome
    phase,             \* "fresh", "ready" (initialized), "failed" (initialize
                       \* failed, the panic unwinds), "torn_down", "dropped"
    inits,             \* initialize calls so far
    exit_requested,    \* event_loop.exit() has been called
    debug_assertions,  \* build profile: cfg(debug_assertions)
    target_os          \* build target: cfg(target_os)

vars == <<self, live, faults, next, last, phase, inits, exit_requested,
          debug_assertions, target_os>>

\* The targets the build distinguishes: cfg(target_os = "macos") or not.
TargetSystems == { "linux", "macos" }

\* Cargo's profiles give overflow-checks the value of debug-assertions: with
\* it, an unsigned addition that leaves the range panics; without it, wraps.
overflow_checks == debug_assertions

\* ------------------------------------------------------------ the renderer
NoPair == <<>>           \* Option::None of a tuple or struct field
NoFormat == "none"

DefaultRenderer ==
    [ entry                 |-> FALSE,
      instance              |-> None,
      debug                 |-> None,
      surface               |-> None,
      physical_device       |-> None,
      device                |-> None,
      graphics_queue        |-> NoPair,
      present_queue         |-> NoPair,
      queue_family_indices  |-> NoPair,
      swapchain             |-> None,
      swapchain_images      |-> <<>>,
      swapchain_image_views |-> <<>>,
      swapchain_format      |-> NoFormat,
      swapchain_extent      |-> NoPair,
      render_pass           |-> None,
      framebuffers          |-> <<>> ]

\* -------------------------------------------------------------- the driver
\* A running operation: the renderer's fields, the driver's state, the calls
\* made so far, the locals of the running function, and how it ended
\* ("run" while it has not ended).
\* The create infos an operation has handed to the driver: none (<<>>) or
\* one (<<info>>) per instance, device and swapchain, and one per framebuffer.
NoRequests ==
    [ instance |-> <<>>, device |-> <<>>, swapchain |-> <<>>, framebuffers |-> <<>> ]

Machine(s, lv, f, n) ==
    [ self |-> s, live |-> lv, faults |-> f, next |-> n,
      calls |-> <<>>, loc |-> DefaultRenderer, req |-> NoRequests,
      msg |-> <<>>, log |-> <<>>, out |-> "run" ]

LiveIds(lv) == { o.id : o \in lv }

Call(m, c) == [m EXCEPT !.calls = Append(@, c)]

\* vkCreate*: a fresh handle, live from now on, created from the handles deps.
DriverCreate(m, kind, deps) ==
    [m EXCEPT !.live = @ \cup {[id |-> m.next, kind |-> kind, deps |-> deps]},
              !.next = @ + 1,
              !.calls = Append(@, <<"create", kind, m.next>>)]

\* vkDestroy*: the handle stops being live.  Destroying a handle that is not
\* live, or one that a live object was created from, is invalid usage.
DriverDestroy(m, kind, h) ==
    LET users == { o \in m.live : h \in o.deps }
        twice == IF h \in LiveIds(m.live) THEN {}
                 ELSE {[fault |-> "double_destroy", kind |-> kind, by |-> kind]}
        inuse == {[fault |-> "destroyed_in_use", kind |-> kind, by |-> o.kind] : o \in users}
    IN [m EXCEPT !.live = { o \in @ : o.id # h },
                 !.faults = @ \cup twice \cup inuse,
                 !.calls = Append(@, <<"destroy", kind, h>>)]

RECURSIVE DestroyAll(_, _, _)
\* for x in list.drain(..) { device.destroy_x(x) }
DestroyAll(m, kind, hs) ==
    IF hs = <<>> THEN m
    ELSE DestroyAll(DriverDestroy(m, kind, Head(hs)), kind, Tail(hs))

\* ----------------------------------------------------------------- cleanup
\* Mutant: the render pass is destroyed before the framebuffers bound to it.
CleanupDeviceOwned_RenderPassFirst(m) ==
    LET s == m.self
        a == IF s.render_pass # None
             THEN DriverDestroy(m, "render_pass", s.render_pass) ELSE m
        b == DestroyAll(a, "framebuffer", s.framebuffers)
        c == DestroyAll(b, "image_view", s.swapchain_image_views)
        d == IF s.swapchain # None
             THEN DriverDestroy(c, "swapchain", s.swapchain) ELSE c
    IN [d EXCEPT !.self.framebuffers = <<>>,
                 !.self.render_pass = None,
                 !.self.swapchain_image_views = <<>>,
                 !.self.swapchain = None]

\* vulkan.rs 71-91: what cleanup destroys through the logical device.
\* Mutant: cleanup destroys the render pass and keeps its handle.
CleanupDeviceOwned_KeepsRenderPass(m) ==
    LET s == m.self
        a == DestroyAll(m, "framebuffer", s.framebuffers)
        b == IF s.render_pass # None
             THEN DriverDestroy(a, "render_pass", s.render_pass) ELSE a
        c == DestroyAll(b, "image_view", s.swapchain_image_views)
        d == IF s.swapchain # None
             THEN DriverDestroy(c, "swapchain", s.swapchain) ELSE c
    IN [d EXCEPT !.self.framebuffers = <<>>,
                 !.self.swapchain_image_views = <<>>,
                 !.self.swapchain = None]

\* vulkan.rs 67-92: the device-owned objects, consumers first.
CleanupDeviceOwned(m) ==
    LET s == m.self
        a == DestroyAll(m, "framebuffer", s.framebuffers)
        b == IF s.render_pass # None
             THEN DriverDestroy(a, "render_pass", s.render_pass) ELSE a
        c == DestroyAll(b, "image_view", s.swapchain_image_views)
        d == IF s.swapchain # None
             THEN DriverDestroy(c, "swapchain", s.swapchain) ELSE c
    IN [d EXCEPT !.self.framebuffers = <<>>,
                 !.self.render_pass = None,
                 !.self.swapchain_image_views = <<>>,
                 !.self.swapchain = None]

\* Mutant: a failed wait ends the device-owned part of cleanup.
CleanupPresentation_StopsOnWaitFailure(m, idleOk) ==
    IF m.self.device # None
    THEN IF idleOk
         THEN CleanupDeviceOwned(Call(m, <<"wait_idle", "device", m.self.device>>))
         ELSE Call(m, <<"wait_idle_failed", "device", m.self.device>>)
    ELSE m

\* vulkan.rs 67-92: device_wait_idle().ok() drops the wait's result.
CleanupPresentation(m, idleOk) ==
    IF m.self.device # None
    THEN CleanupDeviceOwned(
             Call(m, <<IF idleOk THEN "wait_idle" ELSE "wait_idle_failed",
                       "device", m.self.device>>))
    ELSE m

\* Mutant: the instance is destroyed before the logical device.
CleanupContext_InstanceBeforeDevice(m) ==
    LET s == m.self
        a == IF debug_assertions /\ s.instance # None /\ s.debug # None
             THEN DriverDestroy(m, "debug_messenger", s.debug) ELSE m
        b == IF s.instance # None /\ s.surface # None
             THEN DriverDestroy(a, "surface", s.surface) ELSE a
        c == IF s.instance # None
             THEN DriverDestroy(b, "instance", s.instance) ELSE b
        d == IF s.device # None
             THEN DriverDestroy(c, "device", s.device) ELSE c
    IN [d EXCEPT !.self.debug = None,
                 !.self.surface = None,
                 !.self.device = None,
                 !.self.instance = None]

\* Mutant: the instance field is not cleared after the instance is destroyed.
CleanupContext_KeepsInstance(m) ==
    LET s == m.self
        a == IF debug_assertions /\ s.instance # None /\ s.debug # None
             THEN DriverDestroy(m, "debug_messenger", s.debug) ELSE m
        b == IF s.instance # None /\ s.surface # None
             THEN DriverDestroy(a, "surface", s.surface) ELSE a
        c == IF s.device # None
             THEN DriverDestroy(b, "device", s.device) ELSE b
        d == IF s.instance # None
             THEN DriverDestroy(c, "instance", s.instance) ELSE c
    IN [d EXCEPT !.self.debug = None,
                 !.self.surface = None,
                 !.self.device = None]

\* vulkan.rs 94-117: messenger, surface, logical device, instance.
CleanupContext(m) ==
    LET s == m.self
        a == IF debug_assertions /\ s.instance # None /\ s.debug # None
             THEN DriverDestroy(m, "debug_messenger", s.debug) ELSE m
        b == IF s.instance # None /\ s.surface # None
             THEN DriverDestroy(a, "surface", s.surface) ELSE a
        c == IF s.device # None
             THEN DriverDestroy(b, "device", s.device) ELSE b
        d == IF s.instance # None
             THEN DriverDestroy(c, "instance", s.instance) ELSE c
    IN [d EXCEPT !.self.debug = None,
                 !.self.surface = None,
                 !.self.device = None,
                 !.self.instance = None]

\* Mutant: the physical device reference is not cleared.
ClearCpuState_KeepsPhysicalDevice(m) ==
    [m EXCEPT !.self.entry = FALSE,
              !.self.graphics_queue = NoPair,
              !.self.present_queue = NoPair,
              !.self.queue_family_indices = NoPair,
              !.self.swapchain_images = <<>>,
              !.self.swapchain_format = NoFormat,
              !.self.swapchain_extent = NoPair]

\* vulkan.rs 120-128
ClearCpuState(m) ==
    [m EXCEPT !.self.entry = FALSE,
              !.self.physical_device = None,
              !.self.graphics_queue = NoPair,
              !.self.present_queue = NoPair,
              !.self.queue_family_indices = NoPair,
              !.self.swapchain_images = <<>>,
              !.self.swapchain_format = NoFormat,
              !.self.swapchain_extent = NoPair]

\* VulkanRenderer::cleanup; it has no failing path.
Cleanup(m, idleOk) ==
    [ClearCpuState(CleanupContext(CleanupPresentation(m, idleOk))) EXCEPT !.out = "ok"]

\* -------------------------------------------------------------- initialize
\* What the driver and the window system answer during one initialize call:
\* failAt names the call that fails ("none": no call fails), failIdx the
\* iteration of a loop in which it fails.
Fails(env, step) == env.failAt = step

\* A fallible call: `?` returns Err(AppError) to the caller (how = "err"),
\* .unwrap()/.expect() panic (how = "panic").  Nothing runs once the
\* function has ended (m.out is no longer "run").
Try(m, env, step, how) ==
    IF m.out = "run" /\ Fails(env, step)
    THEN [Call(m, <<"failed", step, 0>>) EXCEPT !.out = how]
    ELSE m

\* Mutant: the loader and the entry are unwrapped with .expect().
LoadEntry_Panics(m, env) ==
    LET a == Try(Try(m, env, "loader", "panic"), env, "entry", "panic")
    IN IF a.out = "run"
       THEN [Call(a, <<"load", "entry", 0>>) EXCEPT !.loc.entry = TRUE]
       ELSE a

\* vulkan.rs 319-320
LoadEntry(m, env) ==
    LET a == Try(Try(m, env, "loader", "err"), env, "entry", "err")
    IN IF a.out = "run"
       THEN [Call(a, <<"load", "entry", 0>>) EXCEPT !.loc.entry = TRUE]
       ELSE a

\* vulkan.rs 339-350 (debug builds) and 373-377
QueryInstanceSupport(m, env) ==
    LET a == IF debug_assertions THEN Try(m, env, "layers", "panic") ELSE m
    IN Try(a, env, "version", "panic")

ValidationLayer == "VK_LAYER_KHRONOS_validation"
DebugUtilsExtension == "VK_EXT_debug_utils"
PortabilityEnumerationExtension == "VK_KHR_portability_enumeration"

\* vulkan.rs 322-337: exts, from what the window system requires.
InstanceExtensions(required) ==
    required
    \o (IF debug_assertions THEN <<DebugUtilsExtension>> ELSE <<>>)
    \o (IF target_os = "macos" THEN <<PortabilityEnumerationExtension>> ELSE <<>>)

\* vulkan.rs 340-350: any(|p| p.layer_name == "VK_LAYER_KHRONOS_validation")
HasValidationLayer(layers) == \E i \in 1..Len(layers) : layers[i] = ValidationLayer

\* vulkan.rs 352-363: layer_pointers, from the layers the driver advertises.
EnabledLayers(layers) ==
    IF debug_assertions /\ HasValidationLayer(layers) THEN <<ValidationLayer>> ELSE <<>>

\* vulkan.rs 365-370
InstanceFlags ==
    IF target_os = "macos" THEN {"ENUMERATE_PORTABILITY_KHR"} ELSE {}

\* vulkan.rs 385-398: vk::InstanceCreateInfo
InstanceCreateInfo(env) ==
    [ enabled_extension_names |-> InstanceExtensions(env.required_extensions),
      enabled_layer_names |-> EnabledLayers(env.layers),
      flags |-> InstanceFlags ]

\* vkCreateInstance answers VK_ERROR_EXTENSION_NOT_PRESENT when an enabled
\* extension is not one the driver advertises.
ExtensionsPresent(env) ==
    LET exts == InstanceExtensions(env.required_extensions)
    IN \A i \in 1..Len(exts) : exts[i] \in env.instance_extensions

\* Mutant: the instance is stored in its field as soon as it exists.
CreateInstance_StoresEarly(m, env) ==
    LET a == Try(m, [env EXCEPT !.failAt =
                       IF ExtensionsPresent(env) THEN @ ELSE "instance"],
                 "instance", "panic")
    IN IF a.out = "run"
       THEN [DriverCreate(a, "instance", {})
               EXCEPT !.loc.instance = a.next,
                      !.self.instance = a.next,
                      !.req.instance = <<InstanceCreateInfo(env)>>]
       ELSE a

\* vulkan.rs 408-411: .expect("vkCreateInstance failed")
CreateInstance(m, env) ==
    LET a == Try(m, [env EXCEPT !.failAt =
                       IF ExtensionsPresent(env) THEN @ ELSE "instance"],
                 "instance", "panic")
    IN IF a.out = "run"
       THEN [DriverCreate(a, "instance", {})
               EXCEPT !.loc.instance = a.next,
                      !.req.instance = <<InstanceCreateInfo(env)>>]
       ELSE a

\* vulkan.rs 413-418 with create_debug_messenger, 593-599
CreateDebugMessenger(m, env) ==
    IF debug_assertions
    THEN LET a == Try(m, env, "messenger", "panic")
         IN IF a.out = "run"
            THEN [DriverCreate(a, "debug_messenger", {a.loc.instance})
                    EXCEPT !.loc.debug = a.next]
            ELSE a
    ELSE [m EXCEPT !.loc.debug = None]

\* ------------------------------------------------------ diagnostic bridge
\* vk::DebugUtilsMessageSeverityFlagsEXT and vk::DebugUtilsMessageTypeFlagsEXT
\* are sets of flags.
Severities == { "VERBOSE", "INFO", "WARNING", "ERROR" }
MessageTypes == { "GENERAL", "VALIDATION", "PERFORMANCE" }

\* Mutant: the messenger subscribes to every severity.
MessengerCreateInfo_EverySeverity ==
    [ message_severity |-> Severities, message_type |-> MessageTypes ]

\* vulkan.rs 577-590: build_debug_messenger_ci
MessengerCreateInfo ==
    [ message_severity |-> { "WARNING", "ERROR" },
      message_type |-> { "GENERAL", "VALIDATION", "PERFORMANCE" } ]

\* vulkan.rs 556-575: debug_callback logs the message at one level and
\* returns vk::FALSE (ret), which lets the triggering call go on.
DebugCallback(sev, types) ==
    [ level |-> IF "ERROR" \in sev THEN "error"
                ELSE IF "WARNING" \in sev THEN "warn" ELSE "info",
      ret |-> FALSE ]

\* A message of the driver: one severity bit and at least one type bit.
DriverMessages ==
    { [ severity |-> {s}, types |-> ts ] :
        s \in Severities, ts \in (SUBSET MessageTypes) \ {{}} }

\* The driver calls user_callback for the messages whose severity and type
\* the messenger was created for (vulkan.rs 579-588), and for no other.
DeliverMessage(m, msg) ==
    LET ci == MessengerCreateInfo
        wanted == /\ msg.severity \cap ci.message_severity # {}
                  /\ msg.types \cap ci.message_type # {}
    IN [m EXCEPT !.msg = <<msg>>,
                 !.log = IF wanted
                         THEN Append(@, DebugCallback(msg.severity, msg.types))
                         ELSE @,
                 !.out = "ok"]

\* ------------------------------------------------- initialize, continued
\* vulkan.rs 420-430
CreateSurface(m, env) ==
    LET a == Try(Try(Try(m, env, "window_handle", "panic"),
                     env, "display_handle", "panic"),
                 env, "surface", "panic")
    IN IF a.out = "run"
       THEN [DriverCreate(a, "surface", {a.loc.instance}) EXCEPT !.loc.surface = a.next]
       ELSE a

\* ------------------------------------------------------- device selection
\* A physical device is the sequence of its queue families; a family is
\* [graphics, present]: the GRAPHICS flag and the surface support answer.
NoIndex == -1            \* Option::None of a family index

RECURSIVE ScanFamilies(_, _, _, _)
\* vulkan.rs 439-453: the loop over props.iter().enumerate(); i is the u32
\* index of Head(props).
ScanFamilies(props, i, g, p) ==
    IF props = <<>> THEN <<g, p>>
    ELSE ScanFamilies(Tail(props), i + 1,
                      IF Head(props).graphics THEN i ELSE g,
                      IF Head(props).present THEN i ELSE p)

\* Mutant: a device with a graphics family is taken whether or not one of
\* its families has present support.
FamiliesOf_GraphicsOnly(dev) ==
    LET gp == ScanFamilies(dev, 0, NoIndex, NoIndex)
    IN IF gp[1] # NoIndex THEN gp ELSE NoPair

\* Mutant: the first matching family of each kind is kept.
FamiliesOf_FirstMatch(dev) ==
    LET gs == { i \in 0..(Len(dev) - 1) : dev[i + 1].graphics }
        ps == { i \in 0..(Len(dev) - 1) : dev[i + 1].present }
    IN IF gs # {} /\ ps # {}
       THEN << CHOOSE i \in gs : \A j \in gs : i <= j,
               CHOOSE i \in ps : \A j \in ps : i <= j >>
       ELSE NoPair

\* vulkan.rs 437-459: the closure given to find_map.
FamiliesOf(dev) ==
    LET gp == ScanFamilies(dev, 0, NoIndex, NoIndex)
    IN IF gp[1] # NoIndex /\ gp[2] # NoIndex THEN gp ELSE NoPair

RECURSIVE FindMap(_, _)
\* vulkan.rs 435-437: devices.iter().find_map(..); d is the position of
\* Head(devs) in the enumeration, from 1.
FindMap(devs, d) ==
    IF devs = <<>> THEN NoPair
    ELSE IF FamiliesOf(Head(devs)) # NoPair
         THEN <<d>> \o FamiliesOf(Head(devs))
         ELSE FindMap(Tail(devs), d + 1)

\* Mutant: the last eligible device of the enumeration is taken.
PickPhysicalDevice_Last(devs) ==
    LET ok == { d \in 1..Len(devs) : FamiliesOf(devs[d]) # NoPair }
    IN IF ok = {} THEN NoPair
       ELSE LET d == CHOOSE x \in ok : \A y \in ok : y <= x
            IN <<d>> \o FamiliesOf(devs[d])

PickPhysicalDevice(devs) == FindMap(devs, 1)

\* vulkan.rs 445-449: the first surface support query is made as soon as a
\* device with a queue family is scanned.
QueriesSurfaceSupport(devs) == \E d \in 1..Len(devs) : devs[d] # <<>>

\* vulkan.rs 432-460
SelectPhysicalDevice(m, env) ==
    LET a == Try(m, env, "enumerate", "panic")
        b == IF QueriesSurfaceSupport(env.devices)
             THEN Try(a, env, "surface_support", "panic") ELSE a
        pick == PickPhysicalDevice(env.devices)
    IN IF b.out # "run" THEN b
       ELSE IF pick = NoPair
            THEN [Call(b, <<"failed", "select", 0>>) EXCEPT !.out = "panic"]
            ELSE [Call(b, <<"select", "physical_device", pick[1]>>)
                    EXCEPT !.loc.physical_device = pick[1],
                           !.loc.queue_family_indices = <<pick[2], pick[3]>>]

\* Mutant: one request for the graphics family and one for the present
\* family, also when they are the same family.
UniqueQueues_Both(g, p) == <<g, p>>

\* vulkan.rs 481-486: unique_queues
UniqueQueues(g, p) == IF g # p THEN <<g, p>> ELSE <<g>>

\* vulkan.rs 488-499: one vk::DeviceQueueCreateInfo per unique family, each
\* with the priorities [1.0]: one queue, of priority one.
QueueCreateInfos(g, p) ==
    LET uq == UniqueQueues(g, p)
    IN [ i \in 1..Len(uq) |-> [ queue_family_index |-> uq[i], queue_priorities |-> <<1>> ] ]

\* vulkan.rs 462-511
CreateDevice(m, env) ==
    LET a == Try(Try(m, env, "device_extensions", "panic"), env, "device", "panic")
        qfi == a.loc.queue_family_indices
    IN IF a.out = "run"
       THEN [Call(Call(DriverCreate(a, "device", {a.loc.instance}),
                       <<"get_queue", "queue", qfi[1]>>),
                  <<"get_queue", "queue", qfi[2]>>)
               EXCEPT !.req.device = <<[ physical_device |-> a.loc.physical_device,
                                         queue_create_infos |->
                                             QueueCreateInfos(qfi[1], qfi[2]) ]>>,
                      !.loc.device = a.next,
                      !.loc.graphics_queue = <<a.next, qfi[1]>>,
                      !.loc.present_queue = <<a.next, qfi[2]>>]
       ELSE a

\* vulkan.rs 513-522
SaveContext(m) ==
    IF m.out # "run" THEN m
    ELSE [m EXCEPT !.self.entry = m.loc.entry,
                   !.self.instance = m.loc.instance,
                   !.self.debug = m.loc.debug,
                   !.self.surface = m.loc.surface,
                   !.self.physical_device = m.loc.physical_device,
                   !.self.queue_family_indices = m.loc.queue_family_indices,
                   !.self.device = m.loc.device,
                   !.self.graphics_queue = m.loc.graphics_queue,
                   !.self.present_queue = m.loc.present_queue]

\* ------------------------------------------------------------ presentation
PreferredFormat == "B8G8R8A8_SRGB"

RECURSIVE FindFormat(_)
\* vulkan.rs 153-155: surface_formats.iter().find(|f| f.format == B8G8R8A8_SRGB)
FindFormat(fs) ==
    IF fs = <<>> THEN NoPair
    ELSE IF Head(fs).format = PreferredFormat THEN <<Head(fs)>>
         ELSE FindFormat(Tail(fs))

\* vulkan.rs 152-156; the caller has checked that the list is not empty
\* (surface_formats[0] is evaluated before unwrap_or and panics on an
\* empty list).
ChooseFormat(fs) == IF FindFormat(fs) # NoPair THEN FindFormat(fs)[1] ELSE fs[1]

\* Mutant: the sentinel is looked for in the height as well.
ChooseExtent_EitherSentinel(current) ==
    IF current[1] = U32Max \/ current[2] = U32Max
    THEN <<DefaultWidth, DefaultHeight>> ELSE current

\* vulkan.rs 158-165; an extent is <<width, height>>.
ChooseExtent(current) ==
    IF current[1] = U32Max THEN <<DefaultWidth, DefaultHeight>> ELSE current

\* Mutant: the first mode the driver reports is taken when MAILBOX is missing.
ChoosePresentMode_FirstReported(modes) ==
    IF \E i \in 1..Len(modes) : modes[i] = "MAILBOX" THEN "MAILBOX"
    ELSE IF modes # <<>> THEN modes[1] ELSE "FIFO"

\* vulkan.rs 174-179
ChoosePresentMode(modes) ==
    IF \E i \in 1..Len(modes) : modes[i] = "MAILBOX" THEN "MAILBOX" ELSE "FIFO"

\* vulkan.rs 184: min_image_count + 1 leaves the u32 range.
ImageCountOverflows(min) == min + 1 > U32Max

\* vulkan.rs 184: in a build with overflow checks the addition panics when
\* it overflows.
CheckedImageCount(m, env) ==
    IF m.out = "run" /\ overflow_checks /\ ImageCountOverflows(env.min_image_count)
    THEN [Call(m, <<"failed", "image_count", 0>>) EXCEPT !.out = "panic"]
    ELSE m

\* Mutant: the count is clamped to the maximum also when the maximum is 0.
ChooseImageCount_AlwaysClamped(min, max) ==
    LET count == (min + 1) % (U32Max + 1)
    IN IF count > max THEN max ELSE count

\* vulkan.rs 183-187, for a build in which the addition wraps.
ChooseImageCount(min, max) ==
    LET count == (min + 1) % (U32Max + 1)
    IN IF max > 0 /\ count > max THEN max ELSE count

\* vulkan.rs 190-202: vk::SwapchainCreateInfoKHR
SwapchainCreateInfo(env) ==
    [ min_image_count |-> ChooseImageCount(env.min_image_count, env.max_image_count),
      image_format |-> ChooseFormat(env.formats).format,
      image_color_space |-> ChooseFormat(env.formats).color_space,
      image_extent |-> ChooseExtent(env.current_extent),
      present_mode |-> ChoosePresentMode(env.present_modes) ]

RECURSIVE CreateImageViews(_, _, _)
\* vulkan.rs 215-235: one view per image; k is the iteration, from 1.
CreateImageViews(m, env, k) ==
    IF m.out # "run" \/ k > Len(m.loc.swapchain_images) THEN m
    ELSE IF Fails(env, "image_view") /\ env.failIdx = k
         THEN [Call(m, <<"failed", "image_view", 0>>) EXCEPT !.out = "panic"]
         ELSE CreateImageViews(
                [DriverCreate(m, "image_view", {m.self.device, m.loc.swapchain})
                   EXCEPT !.loc.swapchain_image_views = Append(@, m.next)],
                env, k + 1)

\* vulkan.rs 132-245: VulkanRenderer::create_swapchain
CreateSwapchain(m, env) ==
    LET a == Try(Try(m, env, "surface_capabilities", "panic"),
                 env, "surface_formats", "panic")
        b == IF a.out = "run" /\ env.formats = <<>>
             THEN [Call(a, <<"failed", "format_index", 0>>) EXCEPT !.out = "panic"]
             ELSE a
        c == Try(CheckedImageCount(Try(b, env, "present_modes", "panic"), env),
                 env, "swapchain", "panic")
        d == IF c.out = "run"
             THEN [DriverCreate(c, "swapchain", {c.self.device, c.self.surface})
                     EXCEPT !.req.swapchain = <<SwapchainCreateInfo(env)>>,
                            !.loc.swapchain = c.next,
                            !.loc.swapchain_format = ChooseFormat(env.formats).format,
                            !.loc.swapchain_extent = ChooseExtent(env.current_extent)]
             ELSE c
        e == Try(d, env, "swapchain_images", "panic")
        f == IF e.out = "run"
             THEN [e EXCEPT !.loc.swapchain_images =
                                [k \in 1..env.nImages |-> <<e.loc.swapchain, k>>],
                            !.loc.swapchain_image_views = <<>>]
             ELSE e
        g == CreateImageViews(f, env, 1)
    IN IF g.out = "run"
       THEN [g EXCEPT !.self.swapchain = g.loc.swapchain,
                      !.self.swapchain_images = g.loc.swapchain_images,
                      !.self.swapchain_image_views = g.loc.swapchain_image_views,
                      !.self.swapchain_format = g.loc.swapchain_format,
                      !.self.swapchain_extent = g.loc.swapchain_extent]
       ELSE g

\* vulkan.rs 248-284: VulkanRenderer::create_render_pass
CreateRenderPass(m, env) ==
    LET a == Try(m, env, "render_pass", "panic")
    IN IF a.out = "run"
       THEN [DriverCreate(a, "render_pass", {a.self.device})
               EXCEPT !.self.render_pass = a.next]
       ELSE a

RECURSIVE FramebufferLoop(_, _, _, _)
\* vulkan.rs 295-307: one framebuffer per stored view; k is the iteration.
FramebufferLoop(m, env, views, k) ==
    IF m.out # "run" \/ views = <<>> THEN m
    ELSE IF Fails(env, "framebuffer") /\ env.failIdx = k
         THEN [Call(m, <<"failed", "framebuffer", 0>>) EXCEPT !.out = "panic"]
         ELSE FramebufferLoop(
                [DriverCreate(m, "framebuffer",
                              {m.self.device, m.self.render_pass, Head(views)})
                   EXCEPT !.req.framebuffers =
                              Append(@, [ attachments |-> <<Head(views)>>,
                                          width |-> m.self.swapchain_extent[1],
                                          height |-> m.self.swapchain_extent[2] ]),
                          !.loc.framebuffers = Append(@, m.next)],
                env, Tail(views), k + 1)

\* Mutant: a framebuffer is created for the first image view only.
CreateFramebuffers_FirstViewOnly(m, env) ==
    LET views == m.self.swapchain_image_views
        a == FramebufferLoop([m EXCEPT !.loc.framebuffers = <<>>], env,
                             IF views = <<>> THEN views ELSE <<Head(views)>>, 1)
    IN IF a.out = "run"
       THEN [a EXCEPT !.self.framebuffers = a.loc.framebuffers]
       ELSE a

\* vulkan.rs 287-312: VulkanRenderer::create_framebuffers
CreateFramebuffers(m, env) ==
    LET a == FramebufferLoop([m EXCEPT !.loc.framebuffers = <<>>], env,
                             m.self.swapchain_image_views, 1)
    IN IF a.out = "run"
       THEN [a EXCEPT !.self.framebuffers = a.loc.framebuffers]
       ELSE a

\* vulkan.rs 317-529: <VulkanRenderer as Renderer>::initialize
\* Mutant: the render pass is built before the swapchain.
Initialize_RenderPassFirst(m, env) ==
    LET a == LoadEntry(m, env)
        b == QueryInstanceSupport(a, env)
        c == CreateInstance(b, env)
        d == CreateDebugMessenger(c, env)
        e == CreateSurface(d, env)
        f == SelectPhysicalDevice(e, env)
        g == CreateDevice(f, env)
        h == SaveContext(g)
        i == CreateRenderPass(h, env)
        j == CreateSwapchain(i, env)
        k == CreateFramebuffers(j, env)
    IN IF k.out = "run" THEN [k EXCEPT !.out = "ok"] ELSE k

\* vulkan.rs 317-529
Initialize(m, env) ==
    LET a == LoadEntry(m, env)
        b == QueryInstanceSupport(a, env)
        c == CreateInstance(b, env)
        d == CreateDebugMessenger(c, env)
        e == CreateSurface(d, env)
        f == SelectPhysicalDevice(e, env)
        g == CreateDevice(f, env)
        h == SaveContext(g)
        i == CreateSwapchain(h, env)
        j == CreateRenderPass(i, env)
        k == CreateFramebuffers(j, env)
    IN IF k.out = "run" THEN [k EXCEPT !.out = "ok"] ELSE k

\* ------------------------------------------------------------------ inputs
\* The fallible calls of initialize, in program order; "none": no call fails.
FailOrder ==
    << "loader", "entry", "layers", "version", "instance", "messenger",
       "window_handle", "display_handle", "surface", "enumerate",
       "surface_support", "device_extensions", "device",
       "surface_capabilities", "surface_formats", "present_modes", "swapchain",
       "swapchain_images", "image_view", "render_pass", "framebuffer", "none" >>

FailPoints == { FailOrder[i] : i \in 1..Len(FailOrder) }

Rank(step) == CHOOSE i \in 1..Len(FailOrder) : FailOrder[i] = step

LoopFailPoints == { "image_view", "framebuffer" }

Family(g, p) == [graphics |-> g, present |-> p]

\* Device enumerations of the lifecycle specification: no device with a
\* present family; a device without present support followed by two
\* eligible ones; one device with separate graphics and present families.
Machines ==
    { << <<Family(TRUE, FALSE)>> >>,
      << <<Family(TRUE, FALSE)>>, <<Family(TRUE, TRUE)>>, <<Family(TRUE, TRUE)>> >>,
      << <<Family(TRUE, FALSE), Family(FALSE, TRUE)>> >> }

\* Device enumerations of the selection specification: up to MaxDevices
\* devices, each of one of these family layouts.
DeviceKinds ==
    { <<>>,
      <<Family(TRUE, FALSE)>>,
      <<Family(FALSE, TRUE)>>,
      <<Family(TRUE, TRUE)>>,
      <<Family(TRUE, FALSE), Family(FALSE, TRUE)>>,
      <<Family(FALSE, TRUE), Family(TRUE, FALSE)>>,
      <<Family(TRUE, TRUE), Family(TRUE, FALSE)>>,
      <<Family(TRUE, TRUE), Family(FALSE, TRUE)>> }

DeviceLists == UNION { [1..n -> DeviceKinds] : n \in 0..MaxDevices }

Format(f, cs) == [format |-> f, color_space |-> cs]

\* What the surface reports: its formats and its current extent.
Report(fs, ext) == [formats |-> fs, current_extent |-> ext]

NoReport == Report(<<>>, NoPair)

SurfaceReports ==
    { Report(<< Format("R8G8B8A8_UNORM", "SRGB_NONLINEAR") >>, <<U32Max, U32Max>>),
      Report(<< Format("R8G8B8A8_UNORM", "SRGB_NONLINEAR"),
                Format(PreferredFormat, "SRGB_NONLINEAR") >>, <<640, 480>>) }

\* An answer that initialize never asks for is left at its default, so that
\* two inputs differ only where the run can tell them apart.
Canonical(e, DevSet, ImgSet, RepSet) ==
    LET usesDevices == Rank(e.failAt) > Rank("enumerate")
        eligible == usesDevices /\ PickPhysicalDevice(e.devices) # NoPair
        usesReport == eligible /\ Rank(e.failAt) > Rank("surface_formats")
        usesImages == eligible /\ Rank(e.failAt) > Rank("swapchain_images")
    IN /\ IF usesDevices THEN e.devices \in DevSet ELSE e.devices = <<>>
       /\ usesDevices /\ ~eligible => e.failAt \in {"surface_support", "none"}
       /\ IF usesReport
          THEN Report(e.formats, e.current_extent) \in RepSet
          ELSE Report(e.formats, e.current_extent) = NoReport
       /\ IF usesImages THEN e.nImages \in ImgSet ELSE e.nImages = 0
       /\ IF e.failAt \in LoopFailPoints
          THEN e.failIdx \in 1..e.nImages
          ELSE e.failIdx = 0

\* The rest of what the window system and the driver answer; the lifecycle
\* and the selection specification give it one value: two surface
\* extensions, the validation layer, at least two images with no maximum,
\* the FIFO mode, and the extent limits of the surface.
SurfaceExtensions == << "VK_KHR_surface", "VK_KHR_xcb_surface" >>

\* The instance extension names of the model: what
\* vk_window::get_required_instance_extensions may list, and what a driver
\* may advertise (env.instance_extensions).
ExtensionNames ==
    { "VK_KHR_surface", "VK_KHR_xcb_surface", "VK_EXT_metal_surface",
      DebugUtilsExtension, PortabilityEnumerationExtension }

Envs(FailSet, DevSet, ImgSet, RepSet) ==
    { e \in [ failAt : FailSet,
              failIdx : 0..MaxImages,
              devices : DevSet \cup {<<>>},
              nImages : ImgSet \cup {0},
              formats : { r.formats : r \in RepSet \cup {NoReport} },
              current_extent : { r.current_extent : r \in RepSet \cup {NoReport} },
              required_extensions : { SurfaceExtensions },
              layers : { <<ValidationLayer>> },
              instance_extensions : { ExtensionNames },
              min_image_count : { 2 },
              max_image_count : { 0 },
              present_modes : { <<"FIFO">> },
              min_image_extent : { <<1, 1>> },
              max_image_extent : { <<4096, 4096>> } ] :
        Canonical(e, DevSet, ImgSet, RepSet) }

LifecycleEnvs == Envs(FailPoints, Machines, 0..MaxImages, SurfaceReports)

SelectEnvs ==
    Envs({"none", "surface_support"}, DeviceLists, {1},
         { Report(<< Format(PreferredFormat, "SRGB_NONLINEAR") >>, <<640, 480>>) })

NoEnv ==
    [ failAt |-> "none", failIdx |-> 0, devices |-> <<>>, nImages |-> 0,
      formats |-> <<>>, current_extent |-> NoPair,
      required_extensions |-> <<>>, layers |-> <<>>, instance_extensions |-> {},
      min_image_count |-> 0, max_image_count |-> 0, present_modes |-> <<>>,
      min_image_extent |-> NoPair, max_image_extent |-> NoPair ]

\* ------------------------------------------- inputs of the negotiations
\* One initialize in which no call fails, on one eligible device; each of the
\* sets below lets one of its answers range.
BaseEnv ==
    [ failAt |-> "none", failIdx |-> 0,
      devices |-> << <<Family(TRUE, TRUE)>> >>, nImages |-> 1,
      formats |-> << Format(PreferredFormat, "SRGB_NONLINEAR") >>,
      current_extent |-> <<640, 480>>,
      required_extensions |-> SurfaceExtensions, layers |-> <<ValidationLayer>>,
      instance_extensions |-> ExtensionNames,
      min_image_count |-> 2, max_image_count |-> 0, present_modes |-> <<"FIFO">>,
      min_image_extent |-> <<1, 1>>, max_image_extent |-> <<4096, 4096>> ]

\* The sequences over S of length at most n, and those without a repetition.
SeqsUpTo(S, n) == UNION { [1..k -> S] : k \in 0..n }

Injective(s) == \A i, j \in 1..Len(s) : s[i] = s[j] => i = j

\* vkGetPhysicalDeviceSurfaceFormatsKHR
SurfaceFormats ==
    { Format(f, cs) : f \in { PreferredFormat, "B8G8R8A8_UNORM", "R8G8B8A8_SRGB" },
                      cs \in { "SRGB_NONLINEAR", "EXTENDED_SRGB_LINEAR" } }

FormatEnvs == { [BaseEnv EXCEPT !.formats = fs] : fs \in SeqsUpTo(SurfaceFormats, MaxFormats) }

\* VkSurfaceCapabilitiesKHR.currentExtent, inside and outside the limits.
ExtentEnvs ==
    { [BaseEnv EXCEPT !.current_extent = <<w, h>>] :
        w \in {0, 640, MaxExtent, U32Max}, h \in {0, 480, MaxExtent, U32Max} }

\* VkSurfaceCapabilitiesKHR.minImageCount and maxImageCount: small counts
\* and the top of the u32 range.
ImageCounts == 0..MaxCount \cup { U32Max - 1, U32Max }

CountEnvs ==
    { [BaseEnv EXCEPT !.min_image_count = lo, !.max_image_count = hi] :
        lo \in ImageCounts, hi \in ImageCounts }

\* vkGetPhysicalDeviceSurfacePresentModesKHR
PresentModes == { "IMMEDIATE", "MAILBOX", "FIFO", "FIFO_RELAXED" }

ModeEnvs ==
    { [BaseEnv EXCEPT !.present_modes = ms] :
        ms \in { s \in SeqsUpTo(PresentModes, MaxModes) : Injective(s) } }

\* vkEnumerateInstanceLayerProperties: what it reports, or that it fails.
LayerNames == { ValidationLayer, "VK_LAYER_LUNARG_api_dump" }

LayerEnvs ==
    { [BaseEnv EXCEPT !.layers = ls] : ls \in SeqsUpTo(LayerNames, MaxLayers) }
    \cup { [NoEnv EXCEPT !.failAt = "layers"] }

ExtensionEnvs ==
    { [BaseEnv EXCEPT !.required_extensions = es] :
        es \in { s \in SeqsUpTo(ExtensionNames, MaxExtensions) : Injective(s) } }

\* The instance extensions the driver advertises: those the window system
\* requires, and any of the others.
SupportEnvs ==
    { [BaseEnv EXCEPT !.instance_extensions = offered] :
        offered \in { s \in SUBSET ExtensionNames :
                        \A i \in 1..Len(SurfaceExtensions) : SurfaceExtensions[i] \in s } }

NegotiateEnvs ==
    FormatEnvs \cup ExtentEnvs \cup CountEnvs \cup ModeEnvs \cup LayerEnvs
    \cup ExtensionEnvs \cup SupportEnvs

WindowEvents == { "CloseRequested", "Resized", "RedrawRequested" }

\* ----------------------------------------------------------------- actions
Op(name, env, m, idleOk, event) ==
    [ op |-> name, env |-> env, calls |-> m.calls, req |-> m.req,
      msg |-> m.msg, log |-> m.log, out |-> m.out,
      idle_ok |-> idleOk, event |-> event ]

Idle == Machine(self, live, faults, next)

\* app.rs 46-48: the event loop is delivering callbacks to the App.
Running == phase \in {"fresh", "ready"} /\ ~exit_requested

Init ==
    /\ self = DefaultRenderer
    /\ live = {}
    /\ faults = {}
    /\ next = 1
    /\ last = Op("new", NoEnv, [Idle EXCEPT !.out = "ok"], TRUE, "none")
    /\ phase = "fresh"
    /\ inits = 0
    /\ exit_requested = FALSE
    /\ debug_assertions \in BOOLEAN
    /\ target_os \in TargetSystems

Commit(m) ==
    /\ self' = m.self
    /\ live' = m.live
    /\ faults' = m.faults
    /\ next' = m.next

\* app.rs 18-32: App::resumed calls initialize and panics on Err.
InitializeWith(envs) ==
    /\ Running
    /\ inits < MaxInits
    /\ \E env \in envs :
         LET m == Initialize(Idle, env)
         IN /\ Commit(m)
            /\ last' = Op("initialize", env, m, TRUE, "none")
            /\ phase' = IF m.out = "ok" THEN "ready" ELSE "failed"
    /\ inits' = inits + 1
    /\ UNCHANGED <<exit_requested, debug_assertions, target_os>>

DoInitialize == InitializeWith(LifecycleEnvs)

\* Mutant: render forgets the framebuffers it is to draw into.
Render_ForgetsFramebuffers(m) ==
    [m EXCEPT !.self.framebuffers = <<>>, !.out = "ok"]

\* vulkan.rs 538-541: Ok(())
Render(m) == [m EXCEPT !.out = "ok"]

\* api.rs 11-12: render is a method of the Renderer trait; whoever holds the
\* renderer may call it in any state, until the renderer is dropped or a
\* panic unwinds.
DoRender ==
    /\ phase \in {"fresh", "ready", "torn_down"}
    /\ LET m == Render(Idle)
       IN /\ Commit(m)
          /\ last' = Op("render", NoEnv, m, TRUE, "none")
    /\ UNCHANGED <<phase, inits, exit_requested, debug_assertions, target_os>>

\* Mutant: a close request runs cleanup before it stops the event loop.
WindowEvent_CleansUp(m, exit, ev) ==
    [ m |-> IF ev = "CloseRequested" THEN Cleanup(m, TRUE) ELSE [m EXCEPT !.out = "ok"],
      exit |-> exit \/ ev = "CloseRequested" ]

\* Mutant: every window event stops the event loop.
WindowEvent_ExitsOnAny(m, exit, ev) ==
    [ m |-> [m EXCEPT !.out = "ok"],
      exit |-> TRUE ]

\* vulkan.rs 531-536: event_loop.exit() on CloseRequested, nothing else; exit
\* tells whether the event loop has been asked to stop.
WindowEvent(m, exit, ev) ==
    [ m |-> [m EXCEPT !.out = "ok"],
      exit |-> exit \/ ev = "CloseRequested" ]

\* app.rs 34-36: App::window_event hands every event to the renderer.
DoWindowEvent ==
    /\ Running
    /\ \E ev \in WindowEvents :
         LET r == WindowEvent(Idle, exit_requested, ev)
         IN /\ Commit(r.m)
            /\ exit_requested' = r.exit
            /\ last' = Op("window_event", NoEnv, r.m, TRUE, ev)
    /\ UNCHANGED <<phase, inits, debug_assertions, target_os>>

\* app.rs 48-49: once the event loop has exited, App::run calls shutdown(),
\* which runs the teardown sequencer.
DoShutdown ==
    /\ phase \in {"fresh", "ready"}
    /\ exit_requested
    /\ \E idleOk \in BOOLEAN :
         LET m == Cleanup(Idle, idleOk)
         IN /\ Commit(m)
            /\ last' = Op("shutdown", NoEnv, m, idleOk, "none")
    /\ phase' = "torn_down"
    /\ UNCHANGED <<inits, exit_requested, debug_assertions, target_os>>

\* vulkan.rs 544-550: the renderer goes out of scope: at the end of App::run,
\* on its early returns (app.rs 46, 48), or while a panic unwinds through it.
DoDrop ==
    /\ phase # "dropped"
    /\ \E idleOk \in BOOLEAN :
         LET m == Cleanup(Idle, idleOk)
         IN /\ Commit(m)
            /\ last' = Op("drop", NoEnv, m, idleOk, "none")
    /\ phase' = "dropped"
    /\ UNCHANGED <<inits, exit_requested, debug_assertions, target_os>>

Next == DoInitialize \/ DoRender \/ DoWindowEvent \/ DoShutdown \/ DoDrop

Spec == Init /\ [][Next]_vars

\* Device selection alone: one initialize of a fresh renderer, over every
\* enumeration of up to MaxDevices devices.
DoSelect == phase = "fresh" /\ InitializeWith(SelectEnvs)

NextSelect == DoSelect \/ DoDrop

SpecSelect == Init /\ [][NextSelect]_vars

\* The negotiations alone: one initialize of a fresh renderer, over the
\* answers of the window system and of the driver that the instance and the
\* swapchain are configured from.
DoNegotiate == phase = "fresh" /\ InitializeWith(NegotiateEnvs)

NextNegotiate == DoNegotiate \/ DoDrop

SpecNegotiate == Init /\ [][NextNegotiate]_vars

\* The diagnostic bridge alone: one initialize of a fresh renderer, then the
\* messages the driver has for a messenger that exists.
DoAttach == phase = "fresh" /\ InitializeWith(LayerEnvs)

\* vulkan.rs 592-599: from create_debug_utils_messenger_ext on, the driver
\* hands its messages to the messenger.
DoDriverMessage ==
    /\ \E o \in live : o.kind = "debug_messenger"
    /\ \E msg \in DriverMessages :
         LET m == DeliverMessage(Idle, msg)
         IN /\ Commit(m)
            /\ last' = Op("message", NoEnv, m, TRUE, "none")
    /\ UNCHANGED <<phase, inits, exit_requested, debug_assertions, target_os>>

NextDiagnostics == DoAttach \/ DoDriverMessage \/ DoDrop

SpecDiagnostics == Init /\ [][NextDiagnostics]_vars

\* ------------------------------------------------- the bootstrap variants
\* src/main.rs and examples/triangle.rs: an App that owns the entry, the
\* instance and the debug messenger itself.  Its fields are the fields of
\* the same names of "self"; the other fields keep their default.

\* main.rs 69-80: the debug-utils extension is pushed in every build.
BootInstanceExtensions(required) ==
    required
    \o <<DebugUtilsExtension>>
    \o (IF target_os = "macos" THEN <<PortabilityEnumerationExtension>> ELSE <<>>)

\* main.rs 82-104: the validation layer, if it is advertised, in every build.
BootEnabledLayers(layers) ==
    IF HasValidationLayer(layers) THEN <<ValidationLayer>> ELSE <<>>

\* main.rs 59-67, 84-87, 113-118: create_window, the loader, the entry, the
\* layer enumeration and the instance version are all unwrapped.
BootQueries(m, env) ==
    Try(Try(Try(Try(Try(m, env, "window", "panic"),
                    env, "loader", "panic"),
                env, "entry", "panic"),
            env, "layers", "panic"),
        env, "version", "panic")

\* main.rs 139-150
BootCreateInstance(m, env) ==
    LET exts == BootInstanceExtensions(env.required_extensions)
        offered == \A i \in 1..Len(exts) : exts[i] \in env.instance_extensions
        a == Try(m, [env EXCEPT !.failAt = IF offered THEN @ ELSE "instance"],
                 "instance", "panic")
    IN IF a.out = "run"
       THEN [DriverCreate(a, "instance", {})
               EXCEPT !.loc.instance = a.next,
                      !.req.instance =
                          << [ enabled_extension_names |-> exts,
                               enabled_layer_names |-> BootEnabledLayers(env.layers),
                               flags |-> InstanceFlags ] >>]
       ELSE a

\* main.rs 152-155
BootCreateMessenger(m, env) ==
    LET a == Try(m, env, "messenger", "panic")
    IN IF a.out = "run"
       THEN [DriverCreate(a, "debug_messenger", {a.loc.instance})
               EXCEPT !.loc.debug = a.next]
       ELSE a

\* main.rs 157-161
BootSave(m) ==
    IF m.out # "run" THEN m
    ELSE [m EXCEPT !.self.entry = TRUE,
                   !.self.instance = m.loc.instance,
                   !.self.debug = m.loc.debug,
                   !.out = "ok"]

\* main.rs 57-162 (triangle.rs 46-148): App::resumed
BootResumed(m, env) ==
    BootSave(BootCreateMessenger(BootCreateInstance(BootQueries(m, env), env), env))

\* main.rs 165-169 (triangle.rs 151-155): App::window_event
BootWindowEvent(m, exit, ev) ==
    [ m |-> [m EXCEPT !.out = "ok"],
      exit |-> exit \/ ev = "CloseRequested" ]

\* main.rs 174-182 (triangle.rs 160-168): Drop for App destroys the
\* messenger when both fields are Some, and nothing else; the fields are
\* then dropped, and vulkanalia's Instance and Entry release nothing when
\* they are dropped.
BootDrop(m) ==
    IF m.self.instance # None /\ m.self.debug # None
    THEN [DriverDestroy(m, "debug_messenger", m.self.debug) EXCEPT !.out = "ok"]
    ELSE [m EXCEPT !.out = "ok"]

BootFailPoints ==
    { "window", "loader", "entry", "layers", "version", "instance", "messenger",
      "none" }

\* What the window system and the driver answer to one App::resumed.
BootEnvs ==
    { [BaseEnv EXCEPT !.failAt = f, !.layers = ls] :
        f \in BootFailPoints, ls \in SeqsUpTo(LayerNames, MaxLayers) }

DoBootResumed ==
    /\ Running
    /\ inits < MaxInits
    /\ \E env \in BootEnvs :
         LET m == BootResumed(Idle, env)
         IN /\ Commit(m)
            /\ last' = Op("resumed", env, m, TRUE, "none")
            /\ phase' = IF m.out = "ok" THEN "ready" ELSE "failed"
    /\ inits' = inits + 1
    /\ UNCHANGED <<exit_requested, debug_assertions, target_os>>

DoBootWindowEvent ==
    /\ Running
    /\ \E ev \in WindowEvents :
         LET r == BootWindowEvent(Idle, exit_requested, ev)
         IN /\ Commit(r.m)
            /\ exit_requested' = r.exit
            /\ last' = Op("window_event", NoEnv, r.m, TRUE, ev)
    /\ UNCHANGED <<phase, inits, debug_assertions, target_os>>

\* main.rs 186-193: the App is a local of main; it is dropped when main
\* returns and when a panic unwinds.
DoBootDrop ==
    /\ phase # "dropped"
    /\ LET m == BootDrop(Idle)
       IN /\ Commit(m)
          /\ last' = Op("app_drop", NoEnv, m, TRUE, "none")
    /\ phase' = "dropped"
    /\ UNCHANGED <<inits, exit_requested, debug_assertions, target_os>>

NextBootstrap == DoBootResumed \/ DoBootWindowEvent \/ DoBootDrop

SpecBootstrap == Init /\ [][NextBootstrap]_vars

\* ========================================================= properties
IsCleanup(l) == l.op \in {"shutdown", "drop"}

IsDestroy(c) == c[1] = "destroy"

IsWait(c) == c[1] \in {"wait_idle", "wait_idle_failed"}

\* The GPU objects the renderer's fields name, as <<kind, handle>>.
Owned(s) ==
    { <<"framebuffer", s.framebuffers[i]>> : i \in 1..Len(s.framebuffers) }
    \cup { <<"image_view", s.swapchain_image_views[i]>> :
             i \in 1..Len(s.swapchain_image_views) }
    \cup { kh \in { <<"render_pass", s.render_pass>>, <<"swapchain", s.swapchain>>,
                    <<"debug_messenger", s.debug>>, <<"surface", s.surface>>,
                    <<"device", s.device>>, <<"instance", s.instance>> } :
             kh[2] # None }

Destroyed(calls) == { <<calls[i][2], calls[i][3]>> : i \in { j \in 1..Len(calls) : IsDestroy(calls[j]) } }

\* The teardown order of the teardown sequencer's contract.
TeardownOrder ==
    << "framebuffer", "render_pass", "image_view", "swapchain",
       "debug_messenger", "surface", "device", "instance" >>

TeardownRank(c) ==
    IF IsWait(c) THEN 0
    ELSE CHOOSE r \in 1..Len(TeardownOrder) : TeardownOrder[r] = c[2]

\* C1: every run of cleanup waits for the device first and then destroys
\* framebuffers, render pass, image views, swapchain, debug messenger,
\* surface, logical device, instance, in this order, leaving out exactly the
\* resources that the renderer did not hold.
C1_TeardownOrder ==
    [][ IsCleanup(last') =>
          LET calls == last'.calls
          IN /\ \A i \in 1..Len(calls) : IsWait(calls[i]) \/ IsDestroy(calls[i])
             /\ \A i, j \in 1..Len(calls) :
                  i < j => TeardownRank(calls[i]) <= TeardownRank(calls[j])
             /\ Destroyed(calls) = Owned(self)
             /\ self.device # None =>
                  /\ IsWait(calls[1]) /\ calls[1][3] = self.device
                  /\ \A i \in 2..Len(calls) : IsDestroy(calls[i]) ]_vars

\* A cleanup that found every kind of resource and destroyed them all.
C1_Witness ==
    /\ IsCleanup(last)
    /\ last.calls # <<>>
    /\ IsWait(last.calls[1])
    /\ \A r \in 1..Len(TeardownOrder) :
         \E i \in 1..Len(last.calls) :
           IsDestroy(last.calls[i]) /\ last.calls[i][2] = TeardownOrder[r]
    /\ Cardinality({ i \in 1..Len(last.calls) : last.calls[i][2] = "framebuffer" }) >= 2

\* The order in which a successful initialize creates the kinds of object,
\* read off the calls of a run of Initialize on a fresh renderer.
CreationOrder ==
    LET calls == Initialize(Machine(DefaultRenderer, {}, {}, 1), BaseEnv).calls
    IN [i \in 1..Len(calls) |-> calls[i][2]]

\* In the sequence of kinds order, k1 comes before k2.
Before(order, k1, k2) ==
    \E i, j \in 1..Len(order) : i < j /\ order[i] = k1 /\ order[j] = k2

WaitsFirst(calls) ==
    /\ calls # <<>> => IsWait(calls[1])
    /\ \A i \in 2..Len(calls) : ~IsWait(calls[i])

\* C2 as first stated: after the wait for idle, of two objects of different
\* kinds that a cleanup destroys, the one whose kind initialize creates later
\* is destroyed first.
C2_StrictReverseCreation ==
    IsCleanup(last) =>
      LET created == CreationOrder
      IN /\ WaitsFirst(last.calls)
         /\ \A i, j \in 1..Len(last.calls) :
              ( /\ i < j
                /\ IsDestroy(last.calls[i]) /\ IsDestroy(last.calls[j])
                /\ last.calls[i][2] # last.calls[j][2] )
              => Before(created, last.calls[j][2], last.calls[i][2])

ContextTrio == {"debug_messenger", "surface", "device"}

\* C2 as amended: cleanup first waits for the device, then destroys in the
\* reverse of the creation order, except that the debug messenger, the
\* surface and the logical device are destroyed, between the swapchain and
\* the instance, in the order in which they were created.
C2_ReverseCreationButTrio ==
    IsCleanup(last) =>
      LET created == CreationOrder
      IN /\ WaitsFirst(last.calls)
         /\ \A i, j \in 1..Len(last.calls) :
              ( /\ i < j
                /\ IsDestroy(last.calls[i]) /\ IsDestroy(last.calls[j])
                /\ last.calls[i][2] # last.calls[j][2] )
              => IF {last.calls[i][2], last.calls[j][2]} \subseteq ContextTrio
                 THEN Before(created, last.calls[i][2], last.calls[j][2])
                 ELSE Before(created, last.calls[j][2], last.calls[i][2])

\* A cleanup that destroyed presentation objects, the debug messenger, the
\* surface and then the logical device.
C2_Witness ==
    /\ IsCleanup(last)
    /\ \E h, i, j, k \in 1..Len(last.calls) :
         /\ h < i /\ i < j /\ j < k
         /\ last.calls[h][2] = "swapchain"
         /\ last.calls[i][2] = "debug_messenger"
         /\ last.calls[j][2] = "surface"
         /\ last.calls[k][2] = "device"

\* <<a, b>>: the lifetime of an object of kind b is contained in that of the
\* object of kind a it was created from.
ContainedIn ==
    { <<"render_pass", "framebuffer">>, <<"image_view", "framebuffer">>,
      <<"swapchain", "image_view">>, <<"device", "swapchain">>,
      <<"surface", "swapchain">>, <<"instance", "debug_messenger">>,
      <<"instance", "surface">>, <<"instance", "device">> }

\* C3: at every point of every run, no object is destroyed while an object
\* whose lifetime is contained in it is still alive.
C3_NoDestroyWhileInUse ==
    \A f \in faults :
      ~(f.fault = "destroyed_in_use" /\ <<f.kind, f.by>> \in ContainedIn)

NoDoubleDestroy == \A f \in faults : f.fault # "double_destroy"

\* C4: cleanup is idempotent.  No handle is ever destroyed twice, and a
\* cleanup that directly follows a cleanup makes no driver call and changes
\* neither the renderer nor the driver's objects.
C4_Idempotent ==
    [][ /\ NoDoubleDestroy'
        /\ (IsCleanup(last) /\ IsCleanup(last')) =>
             /\ last'.calls = <<>>
             /\ self' = self
             /\ live' = live
             /\ faults' = faults ]_vars

\* A drop that found nothing to destroy although objects had been created
\* and all of them are gone: the shutdown before it destroyed them.
C4_Witness ==
    /\ last.op = "drop"
    /\ last.calls = <<>>
    /\ phase = "dropped"
    /\ next > 1
    /\ live = {}

WaitFailed(calls) == \E i \in 1..Len(calls) : calls[i][1] = "wait_idle_failed"

\* C5: cleanup always completes, and a failed wait for device idle does not
\* stop it: everything the renderer held is still destroyed, the logical
\* device and the instance included.
C5_WaitFailureIgnored ==
    [][ IsCleanup(last') =>
          /\ last'.out = "ok"
          /\ WaitFailed(last'.calls) =>
               /\ Owned(self) \subseteq Destroyed(last'.calls)
               /\ <<"device", self.device>> \in Destroyed(last'.calls)
               /\ <<"instance", self.instance>> \in Destroyed(last'.calls)
               /\ Owned(self') = {} ]_vars

\* A cleanup whose wait failed and that went on to destroy framebuffers and
\* the instance.
C5_Witness ==
    /\ IsCleanup(last)
    /\ WaitFailed(last.calls)
    /\ ~last.idle_ok
    /\ \E i, j \in 1..Len(last.calls) :
         last.calls[i][2] = "framebuffer" /\ last.calls[j][2] = "instance"

\* C6: after cleanup every field of the renderer is absent or empty: the
\* renderer equals the default renderer.
C6_ClearedAfterCleanup == IsCleanup(last) => self = DefaultRenderer

\* A cleanup of a renderer that held a full presentation state.
C6_Witness ==
    /\ IsCleanup(last)
    /\ self = DefaultRenderer
    /\ \E i \in 1..Len(last.calls) : last.calls[i] = <<"destroy", "framebuffer", next - 1>>

\* C7: while the renderer is initialized, it stores as many image views as
\* swapchain images and as many framebuffers, whatever number of images the
\* driver returned, and framebuffer i is attached to image view i.
C7_OnePerImage ==
    phase = "ready" =>
      /\ Len(self.swapchain_image_views) = Len(self.swapchain_images)
      /\ Len(self.framebuffers) = Len(self.swapchain_images)
      /\ last.op = "initialize" => Len(self.swapchain_images) = last.env.nImages
      /\ \A i \in 1..Len(self.framebuffers) :
           \E o \in live :
             /\ o.id = self.framebuffers[i]
             /\ o.kind = "framebuffer"
             /\ i <= Len(self.swapchain_image_views)
             /\ self.swapchain_image_views[i] \in o.deps

\* An initialized renderer with more than one swapchain image.
C7_Witness ==
    /\ phase = "ready"
    /\ last.op = "initialize"
    /\ Len(self.swapchain_images) = MaxImages
    /\ Len(self.framebuffers) = MaxImages

\* The fallible steps of create_swapchain, create_render_pass and
\* create_framebuffers.
PresentationSteps ==
    { "surface_capabilities", "surface_formats", "format_index", "present_modes",
      "image_count", "swapchain", "swapchain_images", "image_view", "render_pass", "framebuffer" }

Made(calls) == { calls[i][3] : i \in { j \in 1..Len(calls) : calls[j][1] = "create" } }

\* C8: when a step of the presentation build fails, the renderer keeps no
\* swapchain, image view, render pass or framebuffer made by that build.
C8_AllOrNothing ==
    ( /\ last.op = "initialize"
      /\ \E i \in 1..Len(last.calls) :
           last.calls[i][1] = "failed" /\ last.calls[i][2] \in PresentationSteps )
    => /\ self.swapchain \notin Made(last.calls)
       /\ self.render_pass \notin Made(last.calls)
       /\ \A i \in 1..Len(self.swapchain_image_views) :
            self.swapchain_image_views[i] \notin Made(last.calls)
       /\ \A i \in 1..Len(self.framebuffers) :
            self.framebuffers[i] \notin Made(last.calls)

\* C9: when a call of initialize fails, nothing is called after it and
\* initialize returns an error value to its caller.
C9_FailFastTypedError ==
    last.op = "initialize" =>
      \A i \in 1..Len(last.calls) :
        last.calls[i][1] = "failed" => i = Len(last.calls) /\ last.out = "err"

\* A device with a graphics family and a family with present support.
EligibleDevice(dev) ==
    /\ \E i \in 1..Len(dev) : dev[i].graphics
    /\ \E i \in 1..Len(dev) : dev[i].present

\* C10: device selection takes the first device of the enumeration that has
\* a graphics family and a family with present support, and fails when no
\* device has both.
C10_FirstEligible ==
    (last.op = "initialize" /\ last.env.failAt = "none") =>
      LET devs == last.env.devices
          ok == { d \in 1..Len(devs) : EligibleDevice(devs[d]) }
      IN IF ok = {}
         THEN last.out = "panic" /\ self.physical_device = None
         ELSE /\ last.out = "ok"
              /\ self.physical_device \in ok
              /\ \A d \in ok : self.physical_device <= d

\* Three devices: the first lacks a present family, the second and third
\* are eligible, and the second is selected.
C10_Witness ==
    /\ last.op = "initialize"
    /\ Len(last.env.devices) = 3
    /\ ~EligibleDevice(last.env.devices[1])
    /\ EligibleDevice(last.env.devices[2])
    /\ EligibleDevice(last.env.devices[3])
    /\ self.physical_device = 2

HasDevice == \E o \in live : o.kind = "device"

\* C11: a logical device exists only with validated queue family indices:
\* whenever one exists, it was created for the selected physical device, the
\* stored graphics index names a family of that device with the GRAPHICS
\* flag and the stored present index names a family of it with present
\* support; and when no enumerated device has both kinds of family,
\* initialize panics and no logical device exists.
C11_ValidatedIndices ==
    /\ \A o \in live : o.kind = "device" =>
         /\ last.op = "initialize"
         /\ self.device = o.id
         /\ last.req.device # <<>>
         /\ last.req.device[1].physical_device = self.physical_device
         /\ self.physical_device \in 1..Len(last.env.devices)
         /\ self.queue_family_indices # NoPair
         /\ LET dev == last.env.devices[self.physical_device]
                g == self.queue_family_indices[1]
                p == self.queue_family_indices[2]
            IN /\ g \in 0..(Len(dev) - 1)
               /\ p \in 0..(Len(dev) - 1)
               /\ dev[g + 1].graphics
               /\ dev[p + 1].present
    /\ ( /\ last.op = "initialize"
         /\ \A d \in 1..Len(last.env.devices) : ~EligibleDevice(last.env.devices[d]) )
       => /\ last.out = "panic"
          /\ ~HasDevice
          /\ last.req.device = <<>>

\* A logical device on the second enumerated device, whose graphics and
\* present families differ.
C11_Witness ==
    /\ HasDevice
    /\ self.physical_device = 2
    /\ self.queue_family_indices = <<1, 0>>

\* C12: the queue-creation requests of a logical device name each of the
\* graphics and the present family exactly once: one request when the two
\* are the same family, two otherwise, no family twice, and every request
\* asks for a single queue of priority 1.0.
C12_UniqueQueueRequests ==
    (last.op = "initialize" /\ last.req.device # <<>>) =>
      LET infos == last.req.device[1].queue_create_infos
          g == self.queue_family_indices[1]
          p == self.queue_family_indices[2]
      IN /\ { infos[i].queue_family_index : i \in 1..Len(infos) } = {g, p}
         /\ Len(infos) = (IF g = p THEN 1 ELSE 2)
         /\ \A i, j \in 1..Len(infos) :
              infos[i].queue_family_index = infos[j].queue_family_index => i = j
         /\ \A i \in 1..Len(infos) : infos[i].queue_priorities = <<1>>

\* The third enumerated device is selected, its one family is the graphics
\* and the present family, and a single request is made for it.
C12_Witness ==
    /\ last.op = "initialize"
    /\ last.req.device # <<>>
    /\ self.physical_device = 3
    /\ self.queue_family_indices = <<0, 0>>
    /\ Len(last.req.device[1].queue_create_infos) = 1

\* An initialize that gets as far as choosing the image count: no call
\* fails and the format list is not empty.
ReachesImageCount(l) ==
    /\ l.op = "initialize"
    /\ l.env.failAt = "none"
    /\ ExtensionsPresent(l.env)
    /\ l.env.formats # <<>>

\* C13 as first stated: with a maximum above 0 the count requested of the
\* swapchain lies above the minimum and at most at the maximum; with the
\* maximum 0 it is the minimum plus one; for every pair of limits.
C13_CountAboveMinimum ==
    ReachesImageCount(last) =>
      /\ last.req.swapchain # <<>>
      /\ LET lo == last.env.min_image_count
             hi == last.env.max_image_count
             count == last.req.swapchain[1].min_image_count
         IN IF hi > 0 THEN lo < count /\ count <= hi
            ELSE count = lo + 1

\* C13 as amended: for a minimum below the top of the u32 range the count
\* is the minimum plus one when the maximum is 0 or lies above the minimum,
\* and the maximum when the maximum lies in 1..minimum.  For the minimum at
\* the top of the range the sum overflows: a build with overflow checks
\* panics before the swapchain is created, a build without them wraps to 0
\* and requests 0 images, whatever the maximum.
C13_CountAsClamped ==
    ReachesImageCount(last) =>
      LET lo == last.env.min_image_count
          hi == last.env.max_image_count
      IN IF lo = U32Max /\ overflow_checks
         THEN last.out = "panic" /\ last.req.swapchain = <<>>
         ELSE /\ last.req.swapchain # <<>>
              /\ LET count == last.req.swapchain[1].min_image_count
                 IN IF lo = U32Max THEN count = 0
                    ELSE IF hi = 0 \/ hi > lo THEN count = lo + 1
                    ELSE count = hi

\* The maximum equals the minimum and is the count requested.
C13_Witness ==
    /\ ReachesImageCount(last)
    /\ last.env.min_image_count = 2
    /\ last.env.max_image_count = 2
    /\ last.req.swapchain # <<>>
    /\ last.req.swapchain[1].min_image_count = 2

\* C14: the extent requested of the swapchain is 800 x 600 when the width of
\* the surface's current extent is the top of the u32 range, whatever its
\* height, and the current extent itself otherwise, also outside the
\* surface's extent limits; the renderer stores it and every framebuffer is
\* created with it.
C14_ExtentChosen ==
    (last.op = "initialize" /\ last.req.swapchain # <<>>) =>
      LET current == last.env.current_extent
          chosen == last.req.swapchain[1].image_extent
      IN /\ current[1] = U32Max => chosen = <<800, 600>>
         /\ current[1] # U32Max => chosen = current
         /\ last.out = "ok" =>
              /\ self.swapchain_extent = chosen
              /\ Len(last.req.framebuffers) = Len(self.swapchain_image_views)
              /\ last.req.framebuffers # <<>>
         /\ \A i \in 1..Len(last.req.framebuffers) :
              /\ last.req.framebuffers[i].width = chosen[1]
              /\ last.req.framebuffers[i].height = chosen[2]

\* A current extent wider and higher than the surface's largest extent, kept
\* as it is for the swapchain and the framebuffer.
C14_Witness ==
    /\ last.op = "initialize"
    /\ last.out = "ok"
    /\ last.env.current_extent[1] > last.env.max_image_extent[1]
    /\ last.env.current_extent[1] # U32Max
    /\ last.env.current_extent[2] = U32Max
    /\ self.swapchain_extent = last.env.current_extent
    /\ last.req.framebuffers[1].height = U32Max

\* C15: when the driver's format list holds the entry (B8G8R8A8_SRGB,
\* SRGB_NONLINEAR), the swapchain is requested with that format and that
\* colour space; when the list holds no such entry, with those of the
\* list's first entry.
C15_PreferredEntryChosen ==
    (last.op = "initialize" /\ last.req.swapchain # <<>>) =>
      LET fs == last.env.formats
          preferred == Format("B8G8R8A8_SRGB", "SRGB_NONLINEAR")
          chosen == Format(last.req.swapchain[1].image_format,
                           last.req.swapchain[1].image_color_space)
      IN IF \E i \in 1..Len(fs) : fs[i] = preferred
         THEN chosen = preferred
         ELSE chosen = fs[1]

\* C16: the swapchain is requested with MAILBOX exactly when the driver's
\* mode list holds MAILBOX, and with FIFO otherwise, also when the list does
\* not hold FIFO.
C16_MailboxOrFifo ==
    (last.op = "initialize" /\ last.req.swapchain # <<>>) =>
      LET modes == last.env.present_modes
          mode == last.req.swapchain[1].present_mode
      IN /\ mode = "MAILBOX" <=> \E i \in 1..Len(modes) : modes[i] = "MAILBOX"
         /\ mode # "MAILBOX" => mode = "FIFO"

\* A mode list without MAILBOX and without FIFO, answered with FIFO.
C16_Witness ==
    /\ last.op = "initialize"
    /\ last.req.swapchain # <<>>
    /\ last.env.present_modes = <<"IMMEDIATE", "FIFO_RELAXED">>
    /\ last.req.swapchain[1].present_mode = "FIFO"

\* C17: the negotiation of layers never fails: whatever the driver answers,
\* initialize goes on to create the instance; the enabled layers are empty
\* when the driver does not advertise the validation layer, and hold nothing
\* but the validation layer, and only when the driver advertises it.
C17_NegotiationNeverFails ==
    (last.op = "initialize" /\ last.env.failAt \in {"none", "layers"}) =>
      /\ \A i \in 1..Len(last.calls) : last.calls[i] # <<"failed", "layers", 0>>
      /\ last.req.instance # <<>>
      /\ LET enabled == last.req.instance[1].enabled_layer_names
             advertised == \E i \in 1..Len(last.env.layers) :
                             last.env.layers[i] = "VK_LAYER_KHRONOS_validation"
         IN /\ ~advertised => enabled = <<>>
            /\ \A i \in 1..Len(enabled) :
                 enabled[i] = "VK_LAYER_KHRONOS_validation" /\ advertised

\* C18: the extensions the instance is created with hold every extension the
\* window system requires, and no extension name twice, for every list of
\* required extensions.
C18_NoDuplicateExtension ==
    (last.op = "initialize" /\ last.req.instance # <<>>) =>
      LET required == last.env.required_extensions
          exts == last.req.instance[1].enabled_extension_names
      IN /\ \A i \in 1..Len(required) :
              \E j \in 1..Len(exts) : exts[j] = required[i]
         /\ \A i, j \in 1..Len(exts) : exts[i] = exts[j] => i = j

\* C19 as first stated: once a CloseRequested event has been handled, the
\* event loop has been asked to stop and the teardown sequencer has run: the
\* renderer owns no live GPU object.
C19_CloseTearsDown ==
    (last.op = "window_event" /\ last.event = "CloseRequested") =>
      /\ exit_requested
      /\ Owned(self) = {}

\* C19 as amended: handling CloseRequested asks the event loop to stop and
\* does not run the teardown sequencer: it makes no driver call and leaves
\* the renderer and its GPU objects as they were; no other event asks the
\* loop to stop.  The objects are destroyed by the cleanup that runs once
\* the event loop has stopped (shutdown, or the renderer's drop), after
\* which the renderer owns no live GPU object.
C19_CloseOnlyRequestsExit ==
    [][ /\ last'.op = "window_event" =>
             /\ exit_requested' = (exit_requested \/ last'.event = "CloseRequested")
             /\ last'.calls = <<>>
             /\ self' = self
             /\ live' = live
        /\ IsCleanup(last') =>
             /\ Owned(self') = {}
             /\ \A kh \in Owned(self) : kh[2] \notin LiveIds(live') ]_vars

\* A close request has been handled and the renderer still owns its
\* framebuffers.
C19_Witness ==
    /\ last.op = "window_event"
    /\ last.event = "CloseRequested"
    /\ exit_requested
    /\ self.framebuffers # <<>>
    /\ \A i \in 1..Len(self.framebuffers) : self.framebuffers[i] \in LiveIds(live)

\* C20: render returns success, makes no driver call, creates and destroys
\* no GPU object and changes no field of the renderer, in whatever state it
\* is called: before initialize, after it, and after teardown.
C20_RenderIsNoOp ==
    [][ last'.op = "render" =>
          /\ last'.out = "ok"
          /\ last'.calls = <<>>
          /\ self' = self
          /\ live' = live
          /\ faults' = faults
          /\ next' = next
          /\ phase' = phase ]_vars

\* A render of an initialized renderer, which keeps its framebuffers.
C20_Witness ==
    /\ last.op = "render"
    /\ phase = "ready"
    /\ self.framebuffers # <<>>

\* ---------------------------------------------------------------------
\* C21: every message of the driver is answered with vk::FALSE and never
\* ends the operation; a message of error severity reaches the log at error
\* level, one of warning severity at warn level, and one of info or verbose
\* severity does not reach the log.
C21_BridgeLevels ==
    last.op = "message" =>
        LET sev == last.msg[1].severity
            levels == [ i \in 1..Len(last.log) |-> last.log[i].level ]
        IN /\ last.out = "ok"
           /\ \A i \in 1..Len(last.log) : last.log[i].ret = FALSE
           /\ "ERROR" \in sev => levels = << "error" >>
           /\ "WARNING" \in sev => levels = << "warn" >>
           /\ sev \subseteq { "INFO", "VERBOSE" } => levels = << >>

\* An error of the validation layer has been logged at error level.
C21_Witness ==
    /\ last.op = "message"
    /\ last.msg = << [ severity |-> {"ERROR"}, types |-> {"VALIDATION"} ] >>
    /\ last.log = << [ level |-> "error", ret |-> FALSE ] >>

\* ---------------------------------------------------------------------
\* The driver advertises every extension of the list but, possibly,
\* VK_EXT_debug_utils.
OffersAllBut(env, exts) ==
    \A i \in 1..Len(exts) :
        exts[i] # DebugUtilsExtension => exts[i] \in env.instance_extensions

\* C22: on a driver that does not advertise VK_EXT_debug_utils, where no
\* call fails and every other extension is advertised, initialize succeeds,
\* requests an instance without the debug-utils extension and creates no
\* messenger.
C22_DebugUtilsOnlyIfSupported ==
    ( /\ last.op = "initialize"
      /\ last.env.failAt = "none"
      /\ DebugUtilsExtension \notin last.env.instance_extensions
      /\ OffersAllBut(last.env, InstanceExtensions(last.env.required_extensions)) )
    => /\ last.out = "ok"
       /\ last.req.instance # <<>>
       /\ LET exts == last.req.instance[1].enabled_extension_names
          IN \A i \in 1..Len(exts) : exts[i] # DebugUtilsExtension
       /\ \A i \in 1..Len(last.calls) :
            ~(last.calls[i][1] = "create" /\ last.calls[i][2] = "debug_messenger")

\* ---------------------------------------------------------------------
\* n times the kind k.
Times(k, n) == [ i \in 1..n |-> k ]

\* The steps of a complete initialize that finds n swapchain images, in the
\* order of the build; the messenger is a step of debug builds.
BuildOrder(n) ==
    << "entry", "instance" >>
    \o (IF debug_assertions THEN << "debug_messenger" >> ELSE << >>)
    \o << "surface", "physical_device", "device", "queue", "queue", "swapchain" >>
    \o Times("image_view", n)
    \o << "render_pass" >>
    \o Times("framebuffer", n)

\* The position in calls of the call that created the handle h; 0 if none.
CreatedAt(calls, h) ==
    IF \E i \in 1..Len(calls) : calls[i][1] = "create" /\ calls[i][3] = h
    THEN CHOOSE i \in 1..Len(calls) : calls[i][1] = "create" /\ calls[i][3] = h
    ELSE 0

\* C23: the steps an initialize has taken are a beginning of the build
\* order, and all of it when initialize succeeds; a failed call is its last;
\* every object it created depends only on objects it created earlier.
C23_CreationOrder ==
    last.op = "initialize" =>
        LET calls == last.calls
            done == SelectSeq(calls, LAMBDA c : c[1] # "failed")
            order == BuildOrder(last.env.nImages)
        IN /\ \A i \in 1..Len(calls) : calls[i][1] = "failed" => i = Len(calls)
           /\ Len(done) <= Len(order)
           /\ \A i \in 1..Len(done) : done[i][2] = order[i]
           /\ last.out = "ok" <=> Len(done) = Len(order)
           /\ \A o \in live :
                CreatedAt(calls, o.id) > 0 =>
                    \A d \in o.deps :
                        /\ CreatedAt(calls, d) > 0
                        /\ CreatedAt(calls, d) < CreatedAt(calls, o.id)

\* A debug build has gone through every step, with two swapchain images.
C23_Witness ==
    /\ last.op = "initialize"
    /\ last.out = "ok"
    /\ debug_assertions
    /\ last.env.nImages = 2
    /\ Len(last.calls) = 14

\* ---------------------------------------------------------------------
\* C24: an initialize in which loading the driver library or creating the
\* entry fails returns an error value, makes no driver call, and leaves the
\* renderer's fields and the driver's objects as they were.
C24_LoaderFailureIsClean ==
    [][ (last'.op = "initialize" /\ last'.env.failAt \in {"loader", "entry"})
        => /\ last'.out = "err"
           /\ last'.calls = << <<"failed", last'.env.failAt, 0>> >>
           /\ self' = self
           /\ live' = live
           /\ faults' = faults
           /\ next' = next ]_vars

\* The entry could not be created for an initialized renderer: the error
\* is returned and the renderer still holds its objects.
C24_Witness ==
    /\ last.op = "initialize"
    /\ last.env.failAt = "entry"
    /\ last.out = "err"
    /\ inits = 2
    /\ self.instance # None
    /\ Owned(self) \subseteq { <<o.kind, o.id>> : o \in live }

\* ---------------------------------------------------------------------
\* C25: once the renderer has been dropped, every object that an
\* initialize created has been destroyed, and none was destroyed twice.
C25_ReleasedOnDrop ==
    phase = "dropped" =>
        /\ live = {}
        /\ \A f \in faults : f.fault # "double_destroy"

\* ---------------------------------------------------------------------
\* C26: an initialize of an initialized renderer is rejected, or else the
\* renderer still owns every object it owned before.
C26_ReinitializeOrphansNothing ==
    [][ (phase = "ready" /\ last'.op = "initialize")
        => \/ self' = self /\ live' = live /\ last'.out \in {"err", "panic"}
           \/ Owned(self) \subseteq Owned(self') ]_vars

\* ---------------------------------------------------------------------
\* C27: a window event other than the close request makes no driver call,
\* leaves the renderer and the driver's objects as they were and does not
\* ask the event loop to stop; only a close request asks for the stop.
C27_OtherEventsAreNoOps ==
    [][ /\ (last'.op = "window_event" /\ last'.event # "CloseRequested")
            => /\ last'.calls = <<>>
               /\ last'.out = "ok"
               /\ self' = self
               /\ live' = live
               /\ faults' = faults
               /\ exit_requested' = exit_requested
        /\ (exit_requested' /\ ~exit_requested)
            => last'.op = "window_event" /\ last'.event = "CloseRequested" ]_vars

\* The window was resized while the initialized renderer was running.
C27_Witness ==
    /\ last.op = "window_event"
    /\ last.event = "Resized"
    /\ phase = "ready"
    /\ ~exit_requested
    /\ self.swapchain \in LiveIds(live)

\* ---------------------------------------------------------------------
\* C29: between operations the context fields (entry, instance, surface,
\* physical device, logical device, the two queues, the queue family
\* indices) are all present or all absent.
C29_ContextTogether ==
    LET present == { self.entry,
                     self.instance # None,
                     self.surface # None,
                     self.physical_device # None,
                     self.device # None,
                     self.graphics_queue # NoPair,
                     self.present_queue # NoPair,
                     self.queue_family_indices # NoPair }
    IN present = {TRUE} \/ present = {FALSE}

\* The logical device could not be created: instance and surface exist in
\* the driver, and the renderer stores no context field.
C29_Witness ==
    /\ last.op = "initialize"
    /\ last.env.failAt = "device"
    /\ \E o \in live : o.kind = "surface"
    /\ ~self.entry
    /\ self.instance = None

\* ---------------------------------------------------------------------
\* C30: the presentation fields are nested: framebuffers only with a render
\* pass; a render pass or image views only with a swapchain; a swapchain
\* only with a logical device; the cached format and extent exactly with a
\* swapchain.
C30_PresentationNested ==
    /\ self.framebuffers # <<>> => self.render_pass # None
    /\ (self.render_pass # None \/ self.swapchain_image_views # <<>>)
           => self.swapchain # None
    /\ self.swapchain # None => self.device # None
    /\ self.swapchain_format # NoFormat <=> self.swapchain # None
    /\ self.swapchain_extent # NoPair <=> self.swapchain # None

\* The render pass could not be created: the renderer holds the swapchain,
\* its views, format and extent, and neither render pass nor framebuffers.
C30_Witness ==
    /\ last.op = "initialize"
    /\ last.env.failAt = "render_pass"
    /\ self.swapchain # None
    /\ self.swapchain_image_views # <<>>
    /\ self.swapchain_format # NoFormat
    /\ self.render_pass = None
    /\ self.framebuffers = <<>>

\* ---------------------------------------------------------------------
\* C28: when the bootstrap App is dropped with both an instance and a
\* messenger, it destroys the messenger once and then, last, the instance;
\* otherwise it destroys no messenger.
C28_MessengerThenInstance ==
    [][ last'.op = "app_drop" =>
          IF self.instance # None /\ self.debug # None
          THEN last'.calls = << <<"destroy", "debug_messenger", self.debug>>,
                                <<"destroy", "instance", self.instance>> >>
          ELSE \A i \in 1..Len(last'.calls) :
                 ~(last'.calls[i][1] = "destroy"
                   /\ last'.calls[i][2] = "debug_messenger") ]_vars

\* ---------------------------------------------------------------------
\* The highest index among the families of dev that satisfy has.
Highest(dev, has(_)) ==
    CHOOSE i \in 0..(Len(dev) - 1) :
        /\ has(dev[i + 1])
        /\ \A j \in 0..(Len(dev) - 1) : has(dev[j + 1]) => j <= i

\* C31: for the selected device the stored graphics index is the highest
\* index of a family with the GRAPHICS flag and the stored present index
\* the highest index of a family with present support; the two are equal,
\* and one queue is requested, only when those two families are the same.
C31_HighestMatchingFamily ==
    ( /\ last.op = "initialize"
      /\ self.queue_family_indices # NoPair
      /\ self.physical_device \in 1..Len(last.env.devices) )
    => LET dev == last.env.devices[self.physical_device]
           g == Highest(dev, LAMBDA f : f.graphics)
           p == Highest(dev, LAMBDA f : f.present)
       IN /\ self.queue_family_indices = <<g, p>>
          /\ last.req.device # <<>>
          /\ Len(last.req.device[1].queue_create_infos) = 1 <=> g = p

\* Family 0 of the selected device has both the flag and present support,
\* family 1 the flag only: the stored indices differ.
C31_Witness ==
    /\ last.op = "initialize"
    /\ self.physical_device \in 1..Len(last.env.devices)
    /\ last.env.devices[self.physical_device]
         = << Family(TRUE, TRUE), Family(TRUE, FALSE) >>
    /\ self.queue_family_indices = <<1, 0>>
    /\ Len(last.req.device[1].queue_create_infos) = 2

====
